---- MODULE Spec2Model ----
(***************************************************************************)
(* Model of the resume-skill updater: the bounded skill merge              *)
(* (pipeline.py merge_skills), the per-site HTML text extractor            *)
(* (extractor.py _extract_from_html), the two-tier fetch                   *)
(* (extractor.py extract_jd_text) and the linear pipeline                  *)
(* (pipeline.py __main__).                                                 *)
(***************************************************************************)
EXTENDS Integers, Sequences, FiniteSets, TLC

(* ------------------------------ bounds --------------------------------- *)
\* longest baseline / incoming list handed to merge_skills
MaxLen == 3
\* largest capacity handed to merge_skills (capacities range over 0..MaxCap)
MaxCap == 3

\* labels the merge lists are drawn from
Items == {"Java", "Python", "Docker", "Kubernetes"}

BoundedSeq(S, n) == UNION {[1..k -> S] : k \in 0..n}

(* --------------------------- list helpers ------------------------------ *)
\* Python `x in l`
Contains(l, x) == \E i \in 1..Len(l) : l[i] = x

\* the set of values of a list
Elems(l) == {l[i] : i \in 1..Len(l)}

\* `l` has no repeated value
NoDup(l) == \A i, j \in 1..Len(l) : i # j => l[i] # l[j]

\* Python list.remove(x): drops the first occurrence of x (x is present)
ListRemove(l, x) ==
  LET i == CHOOSE k \in 1..Len(l) : l[k] = x /\ \A j \in 1..(k - 1) : l[j] # x
  IN  SubSeq(l, 1, i - 1) \o SubSeq(l, i + 1, Len(l))

\* Python l[:n] for n >= 0
Slice(l, n) == SubSeq(l, 1, IF n < Len(l) THEN n ELSE Len(l))

(* ------------------- pipeline.py merge_skills -------------------------- *)
\* lines 89-91 without the membership test (a plausible slip)
RECURSIVE AppendAll(_, _)
AppendAll(merged, new_list) ==
  IF new_list = <<>> THEN merged
  ELSE AppendAll(Append(merged, Head(new_list)), Tail(new_list))

\* lines 89-91: append each new skill that is not yet in merged
RECURSIVE AppendNew(_, _)
AppendNew(merged, new_list) ==
  IF new_list = <<>> THEN merged
  ELSE LET skill == Head(new_list)
       IN  AppendNew(IF Contains(merged, skill) THEN merged
                     ELSE Append(merged, skill),
                     Tail(new_list))

\* lines 94-97: remove the first old item still present, then break
RECURSIVE EvictFirstOld(_, _)
EvictFirstOld(merged, old_list) ==
  IF old_list = <<>> THEN merged
  ELSE IF Contains(merged, Head(old_list))
       THEN ListRemove(merged, Head(old_list))
       ELSE EvictFirstOld(merged, Tail(old_list))

\* lines 93-99 with the truncation of lines 98-99 left out
RECURSIVE CapLoopNoTrunc(_, _, _)
CapLoopNoTrunc(merged, old_list, max_len) ==
  IF Len(merged) > max_len /\ EvictFirstOld(merged, old_list) # merged
  THEN CapLoopNoTrunc(EvictFirstOld(merged, old_list), old_list, max_len)
  ELSE merged

\* lines 93-99: the while loop; the truncation sits inside the loop body,
\* so it runs right after the first eviction
RECURSIVE CapLoop(_, _, _)
CapLoop(merged, old_list, max_len) ==
  IF Len(merged) > max_len
  THEN LET evicted == EvictFirstOld(merged, old_list)
           cut     == IF Len(evicted) > max_len
                      THEN Slice(evicted, max_len) ELSE evicted
       IN  CapLoop(cut, old_list, max_len)
  ELSE merged

\* lines 80-101
merge_skills(old_list, new_list, max_len) ==
  CapLoop(AppendNew(old_list, new_list), old_list, max_len)

(* ---------------- extractor.py _extract_from_html ---------------------- *)
\* most nodes of a parsed document
MaxNodes == 2

\* the domain markers tested against the lowercased URL, in the order of
\* the if-chain (lines 20, 26, 41, 47, 53, 59, 65)
Markers == <<"icims.com", "myworkdayjobs.com", "greenhouse.io",
             "ashbyhq.com", "lever.co", "smartrecruiters.com",
             "bamboohr.com">>

MarkerSet == {Markers[i] : i \in 1..Len(Markers)}

\* position of a marker in the if-chain
MarkerRank(m) == CHOOSE i \in 1..Len(Markers) : Markers[i] = m

\* the container lookups in declaration order: the marker that guards the
\* lookup and the element soup.find is asked for
Rules == <<
  [marker |-> "icims.com",           key |-> "div#jobcontent"],
  [marker |-> "myworkdayjobs.com",   key |-> "div[data-automation-id=jobPostingDescription]"],
  [marker |-> "myworkdayjobs.com",   key |-> "div[data-automation-id=richTextArea]"],
  [marker |-> "myworkdayjobs.com",   key |-> "div[role=text]"],
  [marker |-> "myworkdayjobs.com",   key |-> "section"],
  [marker |-> "greenhouse.io",       key |-> "div.job"],
  [marker |-> "ashbyhq.com",         key |-> "div[data-testid=JobDescription]"],
  [marker |-> "lever.co",            key |-> "div.posting"],
  [marker |-> "smartrecruiters.com", key |-> "div.job-sections"],
  [marker |-> "bamboohr.com",        key |-> "div#content"] >>

RuleKeys == {Rules[i].key : i \in 1..Len(Rules)}

\* A URL is represented by the set of markers that occur in url.lower();
\* the URLs considered contain at most two of them.
Urls == {u \in SUBSET MarkerSet : \E a, b \in MarkerSet : u \subseteq {a, b}}

\* A text node is represented by the length of its stripped string
\* (0: whitespace only); the lengths sit around the 200-character gate.
TextRuns == {0, 200, 201}

\* A parsed document: its elements in document order, each one either a
\* container some rule looks for or other markup, holding one text node.
Nodes == [key : RuleKeys \cup {"other"}, run : TextRuns]
DocsUpTo(n) == BoundedSeq(Nodes, n)
Docs == DocsUpTo(MaxNodes)

\* A string produced by get_text(" ", strip=True): the non-empty stripped
\* text nodes, joined by single spaces.
RECURSIVE SumRuns(_)
SumRuns(t) == IF t = <<>> THEN 0 ELSE Head(t) + SumRuns(Tail(t))

\* len(text)
StrLen(t) == IF t = <<>> THEN 0 ELSE SumRuns(t) + (Len(t) - 1)

None == [none |-> TRUE]

\* soup.find(tag, attrs): the first element in document order, or None
Find(html, key) ==
  IF \E i \in 1..Len(html) : html[i].key = key
  THEN html[CHOOSE i \in 1..Len(html) :
              html[i].key = key /\ \A j \in 1..(i - 1) : html[j].key # key]
  ELSE None

\* element.get_text(" ", strip=True)
ElementText(el) == IF el.run = 0 THEN <<>> ELSE <<el.run>>

\* soup.get_text(" ", strip=True) over the whole document (line 71)
RECURSIVE GetText(_)
GetText(html) ==
  IF html = <<>> THEN <<>>
  ELSE ElementText(Head(html)) \o GetText(Tail(html))

\* lines 70-75
Fallback(html, consulted) ==
  [text |-> IF GetText(html) # <<>> THEN GetText(html) ELSE <<>>,
   consulted |-> consulted, via |-> 0]

\* the if-chain with a text test in place of the element test
\* (`if el and el.get_text(...)`)
RECURSIVE WalkNonEmpty(_, _, _, _)
WalkNonEmpty(i, html, domain, consulted) ==
  IF i > Len(Rules) THEN Fallback(html, consulted)
  ELSE IF Rules[i].marker \in domain
       THEN LET el == Find(html, Rules[i].key)
            IN  IF el # None /\ ElementText(el) # <<>>
                THEN [text |-> ElementText(el),
                      consulted |-> Append(consulted, i), via |-> i]
                ELSE WalkNonEmpty(i + 1, html, domain, Append(consulted, i))
       ELSE WalkNonEmpty(i + 1, html, domain, consulted)

\* lines 19-75: the if-chain from lookup i on.  `consulted` records the
\* lookups made so far; `via` is the lookup that returned (0: fallback).
\* A found element is truthy whatever its text.
RECURSIVE Walk(_, _, _, _)
Walk(i, html, domain, consulted) ==
  IF i > Len(Rules) THEN Fallback(html, consulted)
  ELSE IF Rules[i].marker \in domain
       THEN LET el == Find(html, Rules[i].key)
            IN  IF el # None
                THEN [text |-> ElementText(el),
                      consulted |-> Append(consulted, i), via |-> i]
                ELSE Walk(i + 1, html, domain, Append(consulted, i))
       ELSE Walk(i + 1, html, domain, consulted)

\* lines 14-75 with the lookups it made
extract_trace(html, url) == Walk(1, html, url, <<>>)

\* lines 14-75: the returned string
extract_from_html(html, url) == extract_trace(html, url).text

(* ------------------ extractor.py extract_jd_text ------------------------ *)
\* most nodes of a document served to extract_jd_text
FetchNodes == 1

\* the documents a server or the rendered page can deliver
FetchDocs == DocsUpTo(FetchNodes)

\* HTTP status codes of the direct response; requests.get returns the
\* response for each of them
StatusCodes == {200, 404, 500}

\* line 83 with `>=` for `>`
DirectSufficesLoose(t) == t # <<>> /\ StrLen(t) >= 200

\* line 83: `if text and len(text) > 200`
DirectSuffices(t) == t # <<>> /\ StrLen(t) > 200

(* ---------------------- pipeline.py __main__ --------------------------- *)
\* longest list the LLM returns for one category
MaxExtracted == 1

Categories == {"programming", "development", "ai"}

\* lines 119-123
old_skills ==
  [programming |-> <<"Java", "C/C++", "Python", "Vue.js", "React", "Docker", "Git">>,
   development |-> <<"MySQL", "MongoDB", "Firebase", "Spring Boot", "Redis">>,
   ai          |-> <<"RAG", "R", "Pandas", "Regression analysis", "A/B Testing", "Tableau">>]

\* line 80: the default max_len
DefaultMaxLen == 9

\* labels the LLM answers with: one the programming baseline holds, one new
LlmItems == {"Python", "Kubernetes"}

\* the JSON objects the LLM can answer with: any of the three keys may be
\* missing
LlmAnswers ==
  UNION {[ks -> BoundedSeq(LlmItems, MaxExtracted)] : ks \in SUBSET Categories}

\* URLs handed to the pipeline on the command line
PipelineUrls == {{}, {"myworkdayjobs.com"}}

\* line 76
EmptySkills == [c \in Categories |-> <<>>]

\* dict.get(key, [])
Get(d, k) == IF k \in DOMAIN d THEN d[k] ELSE <<>>

\* lines 125-129
MergeAll(extracted_) ==
  [c \in Categories |-> merge_skills(old_skills[c], Get(extracted_, c), DefaultMaxLen)]

(* ------------------------------ state ---------------------------------- *)
VARIABLES
  mpc,        \* merge_skills called directly: "idle" | "done"
  m_old,      \* its old_list argument
  m_new,      \* its new_list argument
  m_cap,      \* its max_len argument
  m_result,   \* its return value
  xpc,        \* _extract_from_html called directly: "idle" | "done"
  x_html,     \* its html argument
  x_url,      \* its url argument
  x_out,      \* what it returned, with the lookups it made
  pc,         \* extract_jd_text: the statement control is at
  url,        \* its url argument
  res,        \* the direct response (its status code), or None
  text,       \* the local `text`, or None
  html,       \* the local `html` (rendered page), or None
  playwright, \* the with block of line 91: "none" | "running" (inside)
              \* | "stopped" (left)
  browser,    \* the browser handle: "none" | "open" (launched, close()
              \* not called) | "closed" (browser.close() was called)
  page,       \* the page handle: "none" | "open" | "closed" (its browser
              \* was closed by browser.close())
  pending,    \* an exception is propagating out of the with block
  ret,        \* the value extract_jd_text returned, or None
  direct,     \* record of the direct attempt of this call
  attempts,   \* how often each strategy was started in this call
  ppc,        \* pipeline.py __main__: the statement control is at
  jd_text,    \* line 113
  llm,        \* how the LLM call of analyze_jd went
  extracted,  \* line 116
  new_skills, \* lines 125-129
  passed      \* the skills argument of update_resume_skills, or None

mvars == <<mpc, m_old, m_new, m_cap, m_result>>
xvars == <<xpc, x_html, x_url, x_out>>
fvars == <<pc, url, res, text, html, playwright, browser, page, pending,
           ret, direct, attempts>>
pvars == <<ppc, jd_text, llm, extracted, new_skills, passed>>
vars  == <<mvars, xvars, fvars, pvars>>

\* no entry point has been run yet
Idle == mpc = "idle" /\ xpc = "idle" /\ pc = "idle" /\ ppc = "idle"

InitMerge ==
  /\ mpc = "idle"
  /\ m_old = <<>>
  /\ m_new = <<>>
  /\ m_cap = 0
  /\ m_result = <<>>

InitExtract ==
  /\ xpc = "idle"
  /\ x_html = <<>>
  /\ x_url = {}
  /\ x_out = [text |-> <<>>, consulted |-> <<>>, via |-> 0]

InitFetch ==
  /\ pc = "idle"
  /\ url = {}
  /\ res = None
  /\ text = None
  /\ html = None
  /\ playwright = "none"
  /\ browser = "none"
  /\ page = "none"
  /\ pending = FALSE
  /\ ret = None
  /\ direct = [outcome |-> "none"]
  /\ attempts = [direct |-> 0, rendered |-> 0]

InitPipeline ==
  /\ ppc = "idle"
  /\ jd_text = None
  /\ llm = "none"
  /\ extracted = None
  /\ new_skills = None
  /\ passed = None

Init == InitMerge /\ InitExtract /\ InitFetch /\ InitPipeline

\* a direct call merge_skills(old_list, new_list, max_len)
MergeCall ==
  /\ Idle
  /\ \E o \in BoundedSeq(Items, MaxLen), n \in BoundedSeq(Items, MaxLen),
        c \in 0..MaxCap :
    /\ m_old' = o
    /\ m_new' = n
    /\ m_cap' = c
    /\ m_result' = merge_skills(o, n, c)
    /\ mpc' = "done"
  /\ UNCHANGED <<xvars, fvars, pvars>>

NextMerge == MergeCall

\* a direct call _extract_from_html(html, url)
ExtractCall ==
  /\ Idle
  /\ \E h \in Docs, u \in Urls :
       /\ x_html' = h
       /\ x_url' = u
       /\ x_out' = extract_trace(h, u)
       /\ xpc' = "done"
  /\ UNCHANGED <<mvars, fvars, pvars>>

NextExtract == ExtractCall

SpecExtract == Init /\ [][NextExtract]_vars

SpecMerge == Init /\ [][NextMerge]_vars

(* ---------------- extract_jd_text, statement by statement --------------- *)
\* the locals and handles extract_jd_text does not touch in a step
Enter(u) ==
  /\ url' = u
  /\ pc' = "get"
  /\ UNCHANGED <<res, text, html, playwright, browser, page, pending, ret,
                 direct, attempts>>

\* main.py line 48 / extractor.py line 110: extract_jd_text(url) on its own
FetchCall ==
  /\ Idle
  /\ \E u \in Urls : Enter(u)
  /\ UNCHANGED <<mvars, xvars, pvars>>

\* line 81: the GET is sent; control blocks in requests.get
DirectSend ==
  /\ pc = "get"
  /\ pc' = "waiting"
  /\ attempts' = [attempts EXCEPT !.direct = @ + 1]
  /\ UNCHANGED <<url, res, text, html, playwright, browser, page, pending,
                 ret, direct>>
  /\ UNCHANGED <<mvars, xvars, pvars>>

\* lines 81-82, 86-87: an exception inside the try block.  Either
\* requests.get raises (timeout, DNS, TLS) and res stays unbound, or it
\* returns a response and _extract_from_html raises on its body (the
\* parser rejects the markup), so res is bound and text is not.  The
\* handler prints and control falls through to the rendered fetch.
DirectRaise ==
  /\ pc = "waiting"
  /\ pc' = "fallback"
  /\ \E r \in {None} \cup {[status_code |-> st] : st \in StatusCodes} :
       res' = r
  /\ direct' = [outcome |-> "raised"]
  /\ UNCHANGED <<url, text, html, playwright, browser, page, pending,
                 ret, attempts>>
  /\ UNCHANGED <<mvars, xvars, pvars>>

\* lines 81-82: requests.get returns a response, whatever its status code,
\* and its body is run through _extract_from_html
DirectResponse ==
  /\ pc = "waiting"
  /\ \E st \in StatusCodes, body \in FetchDocs :
       /\ res' = [status_code |-> st]
       /\ text' = extract_from_html(body, url)
       /\ direct' = [outcome |-> "response", status_code |-> st,
                     text |-> extract_from_html(body, url)]
  /\ pc' = "check"
  /\ UNCHANGED <<url, html, playwright, browser, page, pending, ret, attempts>>
  /\ UNCHANGED <<mvars, xvars, pvars>>

\* lines 83-85: long enough text is returned
DirectReturn ==
  /\ pc = "check"
  /\ DirectSuffices(text)
  /\ ret' = text
  /\ pc' = "returned"
  /\ res' = None /\ text' = None /\ html' = None
  /\ UNCHANGED <<url, playwright, browser, page, pending, direct, attempts>>
  /\ UNCHANGED <<mvars, xvars, pvars>>

\* line 83 false: fall through to line 89
DirectShort ==
  /\ pc = "check"
  /\ ~DirectSuffices(text)
  /\ pc' = "fallback"
  /\ UNCHANGED <<url, res, text, html, playwright, browser, page, pending,
                 ret, direct, attempts>>
  /\ UNCHANGED <<mvars, xvars, pvars>>

\* lines 90-91: the with block is entered, the Playwright driver starts
PlaywrightStart ==
  /\ pc = "fallback"
  /\ playwright' = "running"
  /\ attempts' = [attempts EXCEPT !.rendered = @ + 1]
  /\ pc' = "launch"
  /\ UNCHANGED <<url, res, text, html, browser, page, pending, ret, direct>>
  /\ UNCHANGED <<mvars, xvars, pvars>>

\* line 91: sync_playwright().__enter__ raises (the driver does not
\* start); the with block is never entered and the exception leaves
\* extract_jd_text
PlaywrightStartRaise ==
  /\ pc = "fallback"
  /\ attempts' = [attempts EXCEPT !.rendered = @ + 1]
  /\ pc' = "raised"
  /\ res' = None /\ text' = None /\ html' = None
  /\ UNCHANGED <<url, playwright, browser, page, pending, ret, direct>>
  /\ UNCHANGED <<mvars, xvars, pvars>>

\* line 92
BrowserLaunch ==
  /\ pc = "launch"
  /\ browser' = "open"
  /\ pc' = "new_page"
  /\ UNCHANGED <<url, res, text, html, playwright, page, pending, ret,
                 direct, attempts>>
  /\ UNCHANGED <<mvars, xvars, pvars>>

\* line 93
NewPage ==
  /\ pc = "new_page"
  /\ page' = "open"
  /\ pc' = "goto"
  /\ UNCHANGED <<url, res, text, html, playwright, browser, pending, ret,
                 direct, attempts>>
  /\ UNCHANGED <<mvars, xvars, pvars>>

\* line 94: navigation succeeds within 30 s
Goto ==
  /\ pc = "goto"
  /\ pc' = "settle"
  /\ UNCHANGED <<url, res, text, html, playwright, browser, page, pending,
                 ret, direct, attempts>>
  /\ UNCHANGED <<mvars, xvars, pvars>>

\* line 95: the 5 s settle delay
Settle ==
  /\ pc = "settle"
  /\ pc' = "content"
  /\ UNCHANGED <<url, res, text, html, playwright, browser, page, pending,
                 ret, direct, attempts>>
  /\ UNCHANGED <<mvars, xvars, pvars>>

\* line 96
PageContent ==
  /\ pc = "content"
  /\ \E rendered \in FetchDocs : html' = rendered
  /\ pc' = "close"
  /\ UNCHANGED <<url, res, text, playwright, browser, page, pending, ret,
                 direct, attempts>>
  /\ UNCHANGED <<mvars, xvars, pvars>>

\* line 97: browser.close() closes the browser and its pages
BrowserClose ==
  /\ pc = "close"
  /\ browser' = "closed"
  /\ page' = "closed"
  /\ pc' = "with_exit"
  /\ UNCHANGED <<url, res, text, html, playwright, pending, ret, direct,
                 attempts>>
  /\ UNCHANGED <<mvars, xvars, pvars>>

\* lines 92-97: a Playwright call raises (launch failure, navigation
\* error or timeout, a failing browser.close()); the exception leaves the
\* with block and the statements after the raising one are skipped, so
\* before line 97 browser.close() is not called, and a browser.close()
\* that raises leaves the handle as it was
PlaywrightRaise ==
  /\ pc \in {"launch", "new_page", "goto", "settle", "content", "close"}
  /\ pending' = TRUE
  /\ pc' = "with_exit"
  /\ UNCHANGED <<url, res, text, html, playwright, browser, page, ret,
                 direct, attempts>>
  /\ UNCHANGED <<mvars, xvars, pvars>>

\* line 91: the with block is left, normally or by an exception, and the
\* context manager's __exit__ runs.  The source calls nothing else here:
\* a browser that line 97 did not close keeps the state the source left
\* it in (what the driver shutdown does to it is Playwright's, not this
\* program's).  A pending exception, or one that __exit__ itself raises,
\* then leaves extract_jd_text; line 99 is not reached.
WithExit ==
  /\ pc = "with_exit"
  /\ playwright' = "stopped"
  /\ UNCHANGED <<browser, page>>
  /\ \E exit_raises \in BOOLEAN :
     IF pending \/ exit_raises
     THEN /\ pc' = "raised"
          /\ res' = None /\ text' = None /\ html' = None
     ELSE /\ pc' = "extract"
          /\ UNCHANGED <<res, text, html>>
  /\ UNCHANGED <<url, pending, ret, direct, attempts>>
  /\ UNCHANGED <<mvars, xvars, pvars>>

\* lines 99-104: the rendered HTML is extracted; empty text raises
\* RuntimeError, anything else is returned.  _extract_from_html can also
\* raise on the rendered markup (line 99), which leaves extract_jd_text
\* the same way.
RenderedExtract ==
  /\ pc = "extract"
  /\ \E parser_rejects \in BOOLEAN :
     IF parser_rejects \/ extract_from_html(html, url) = <<>>
     THEN /\ pc' = "raised"
          /\ ret' = ret
     ELSE /\ pc' = "returned"
          /\ ret' = extract_from_html(html, url)
  /\ res' = None /\ text' = None /\ html' = None
  /\ UNCHANGED <<url, playwright, browser, page, pending, direct, attempts>>
  /\ UNCHANGED <<mvars, xvars, pvars>>

FetchSteps ==
  \/ DirectSend \/ DirectRaise \/ DirectResponse \/ DirectReturn
  \/ DirectShort \/ PlaywrightStart \/ PlaywrightStartRaise \/ BrowserLaunch \/ NewPage \/ Goto
  \/ Settle \/ PageContent \/ BrowserClose \/ PlaywrightRaise \/ WithExit
  \/ RenderedExtract

NextFetch == FetchCall \/ FetchSteps

SpecFetch == Init /\ [][NextFetch]_vars

(* -------------------- pipeline.py __main__, in order -------------------- *)
\* lines 110-113: the URL is read and extract_jd_text(url) is called
PipelineStart ==
  /\ Idle
  /\ \E u \in PipelineUrls : Enter(u)
  /\ ppc' = "fetch"
  /\ UNCHANGED <<jd_text, llm, extracted, new_skills, passed>>
  /\ UNCHANGED <<mvars, xvars>>

\* line 113: extract_jd_text returned
PipelineFetched ==
  /\ ppc = "fetch"
  /\ pc = "returned"
  /\ jd_text' = ret
  /\ ppc' = "analyze"
  /\ UNCHANGED <<llm, extracted, new_skills, passed>>
  /\ UNCHANGED <<mvars, xvars, fvars>>

\* line 113: extract_jd_text raised; nothing catches it, the run ends
PipelineFetchRaised ==
  /\ ppc = "fetch"
  /\ pc = "raised"
  /\ ppc' = "aborted"
  /\ UNCHANGED <<jd_text, llm, extracted, new_skills, passed>>
  /\ UNCHANGED <<mvars, xvars, fvars>>

\* analyze_jd without the handler of lines 74-76: the error ends the run
AnalyzeFailsPropagates ==
  /\ ppc = "analyze"
  /\ \E how \in {"raise", "unparsable"} : llm' = how
  /\ ppc' = "aborted"
  /\ UNCHANGED <<jd_text, extracted, new_skills, passed>>
  /\ UNCHANGED <<mvars, xvars, fvars>>

\* lines 116, 64-76: the LLM call raises or json.loads rejects its
\* output; the handler returns the three empty lists
AnalyzeFails ==
  /\ ppc = "analyze"
  /\ \E how \in {"raise", "unparsable"} : llm' = how
  /\ extracted' = EmptySkills
  /\ ppc' = "merge"
  /\ UNCHANGED <<jd_text, new_skills, passed>>
  /\ UNCHANGED <<mvars, xvars, fvars>>

\* lines 116, 64-72: the LLM answers with a JSON object
AnalyzeOk ==
  /\ ppc = "analyze"
  /\ llm' = "ok"
  /\ \E answer \in LlmAnswers : extracted' = answer
  /\ ppc' = "merge"
  /\ UNCHANGED <<jd_text, new_skills, passed>>
  /\ UNCHANGED <<mvars, xvars, fvars>>

\* lines 119-129
MergeStep ==
  /\ ppc = "merge"
  /\ new_skills' = MergeAll(extracted)
  /\ ppc' = "write"
  /\ UNCHANGED <<jd_text, llm, extracted, passed>>
  /\ UNCHANGED <<mvars, xvars, fvars>>

\* line 134: update_resume_skills is called with the merged skills
WriteCall ==
  /\ ppc = "write"
  /\ passed' = new_skills
  /\ ppc' = "writing"
  /\ UNCHANGED <<jd_text, llm, extracted, new_skills>>
  /\ UNCHANGED <<mvars, xvars, fvars>>

\* update_resume.py lines 171-215: the document is saved
WriteDone ==
  /\ ppc = "writing"
  /\ ppc' = "done"
  /\ UNCHANGED <<jd_text, llm, extracted, new_skills, passed>>
  /\ UNCHANGED <<mvars, xvars, fvars>>

\* update_resume.py lines 172-173, 183-184: missing file or SKILLS heading
WriteRaise ==
  /\ ppc = "writing"
  /\ ppc' = "aborted"
  /\ UNCHANGED <<jd_text, llm, extracted, new_skills, passed>>
  /\ UNCHANGED <<mvars, xvars, fvars>>

PipelineSteps ==
  \/ PipelineFetched \/ PipelineFetchRaised \/ AnalyzeFails \/ AnalyzeOk
  \/ MergeStep \/ WriteCall \/ WriteDone \/ WriteRaise

NextPipeline == PipelineStart \/ FetchSteps \/ PipelineSteps

SpecPipeline == Init /\ [][NextPipeline]_vars

\* merge_skills on its own, or the pipeline
NextDegrade == NextMerge \/ NextPipeline

SpecDegrade == Init /\ [][NextDegrade]_vars

\* every entry point
Next == NextMerge \/ NextExtract \/ NextFetch \/ NextPipeline

Spec == Init /\ [][Next]_vars

(* ------------------------------ claims --------------------------------- *)
\* items that occur only in the incoming list / only in the baseline
IncomingOnly == Elems(m_new) \ Elems(m_old)
BaselineOnly == Elems(m_old) \ Elems(m_new)

\* C1: the list merge_skills returns is never longer than the capacity
C1_Capacity == mpc = "done" => Len(m_result) <= m_cap

\* C1 witness: a merge that went over capacity and was cut back to it
C1_Witness ==
  /\ mpc = "done"
  /\ Len(AppendNew(m_old, m_new)) > m_cap
  /\ Len(m_result) = m_cap
  /\ m_cap > 0

\* C2 (as stated): the result has no repeated label, whatever the inputs
C2_NoDupAnyInput == mpc = "done" => NoDup(m_result)

\* C2 (amended): for a baseline without repeated labels the result has no
\* repeated label, even when the incoming list repeats labels
C2_NoDup == (mpc = "done" /\ NoDup(m_old)) => NoDup(m_result)

\* C2 witness: incoming repeats a label and shares one with the baseline
C2_Witness ==
  /\ mpc = "done"
  /\ NoDup(m_old)
  /\ ~NoDup(m_new)
  /\ Elems(m_new) \cap Elems(m_old) # {}
  /\ IncomingOnly # {}
  /\ IncomingOnly \subseteq Elems(m_result)

\* C3: an incoming-only item is never missing from the result while a
\* baseline-only item is still in it
C3_NewItemProtection ==
  (mpc = "done" /\ NoDup(m_old) /\ NoDup(m_new)) =>
    ((\E x \in IncomingOnly : ~Contains(m_result, x))
       => ~(\E y \in BaselineOnly : Contains(m_result, y)))

\* C4: a full baseline of cap distinct items merged with k distinct new
\* items (1 <= k <= cap) keeps all k new items and has length cap
C4_FullBaselineEviction ==
  (/\ mpc = "done"
   /\ NoDup(m_old) /\ Len(m_old) = m_cap
   /\ NoDup(m_new) /\ Len(m_new) >= 1 /\ Len(m_new) <= m_cap
   /\ Elems(m_new) \cap Elems(m_old) = {})
  => (/\ Len(m_result) = m_cap
      /\ Elems(m_new) \subseteq Elems(m_result)
      /\ Cardinality(Elems(m_old) \ Elems(m_result)) = Len(m_new))
\* the lookups whose marker is in the URL and whose element is in the
\* document
Matching == {i \in 1..Len(Rules) :
               Rules[i].marker \in x_url /\ Find(x_html, Rules[i].key) # None}

FirstMatching == CHOOSE i \in Matching : \A j \in Matching : i <= j

\* the domains whose lookups were made
ConsultedDomains ==
  {Rules[x_out.consulted[k]].marker : k \in 1..Len(x_out.consulted)}

\* the first marker of the if-chain that occurs in the URL
FirstMarker == CHOOSE m \in x_url : \A n \in x_url : MarkerRank(m) <= MarkerRank(n)

\* C9: the lookups of at most one domain are made, those of the first
\* matching marker; when none of them finds an element the result is the
\* whole-document fallback
C9_SingleDomain ==
  xpc = "done" =>
    /\ Cardinality(ConsultedDomains) <= 1
    /\ x_url # {} => ConsultedDomains = {FirstMarker}
    /\ (x_url # {} /\ \A i \in 1..Len(Rules) :
          Rules[i].marker = FirstMarker => Find(x_html, Rules[i].key) = None)
       => x_out.via = 0

\* C10: the first lookup (in declaration order) whose element exists
\* gives the result, empty or not; the whole-document text is the result
\* exactly when no lookup of a matched marker finds an element
C10_ElementPresence ==
  xpc = "done" =>
    /\ Matching # {} =>
         /\ x_out.via = FirstMatching
         /\ x_out.text = ElementText(Find(x_html, Rules[FirstMatching].key))
         /\ \A k \in 1..Len(x_out.consulted) : x_out.consulted[k] <= FirstMatching
    /\ Matching = {} => x_out.via = 0 /\ x_out.text = GetText(x_html)
    /\ x_url = {} => x_out.text = GetText(x_html) /\ x_out.consulted = <<>>

\* C10 witness: the first existing container is empty, a later rule's
\* container and the rest of the document have text, the result is empty
C10_Witness ==
  /\ xpc = "done"
  /\ Cardinality(Matching) >= 2
  /\ x_out.text = <<>>
  /\ x_out.via = FirstMatching
  /\ GetText(x_html) # <<>>
\* the direct attempt failed to give enough text: it raised, or its
\* extracted text is empty or at most 200 characters long
DirectRaised == direct.outcome = "raised"
DirectShortText ==
  direct.outcome = "response" /\ (direct.text = <<>> \/ StrLen(direct.text) <= 200)
DirectLongText == direct.outcome = "response" /\ StrLen(direct.text) > 200
Finished == pc \in {"returned", "raised"}

\* C5: the rendered fetch starts if and only if the direct attempt has
\* finished with an exception or with text of at most 200 characters; longer
\* text is returned and no browser is launched; each strategy is attempted
\* at most once and the two never overlap
C5_Escalation ==
  /\ attempts.direct <= 1 /\ attempts.rendered <= 1
  /\ attempts.rendered = 1 => (DirectRaised \/ DirectShortText)
  /\ (Finished /\ (DirectRaised \/ DirectShortText)) => attempts.rendered = 1
  /\ DirectLongText =>
       /\ attempts.rendered = 0 /\ playwright = "none" /\ browser = "none"
       /\ pc \in {"check", "returned"}
       /\ pc = "returned" => ret = direct.text
  /\ pc = "waiting" =>
       direct.outcome = "none" /\ playwright = "none" /\ browser = "none"
  /\ playwright = "running" =>
       direct.outcome # "none" /\ pc \notin {"get", "waiting", "check"}

\* C5 witness: a direct response of exactly 200 characters was escalated
\* and the rendered page gave the result
C5_Witness ==
  /\ pc = "returned"
  /\ direct.outcome = "response" /\ StrLen(direct.text) = 200
  /\ attempts.rendered = 1
  /\ browser = "closed"

\* C7: a failed direct fetch, a non-2xx response included, never ends the
\* call: the rendered fetch follows, and a non-2xx body is never returned
C7_DirectFailureEscalates ==
  /\ (Finished /\ DirectRaised) => attempts.rendered = 1
  /\ pc = "raised" => attempts.rendered = 1
  /\ (Finished /\ direct.outcome = "response"
        /\ direct.status_code \notin 200..299) => attempts.rendered = 1

LlmFailed == llm \in {"raise", "unparsable"}

\* C8: merging nothing new into a list that fits the capacity returns the
\* list; when the LLM call raises or its output does not parse, analyze_jd
\* gives three empty lists, the run goes on to the document write, and
\* the skills passed to update_resume_skills are the baseline
C8_DegradeToBaseline ==
  /\ (mpc = "done" /\ m_new = <<>> /\ Len(m_old) <= m_cap) => m_result = m_old
  /\ LlmFailed =>
       /\ extracted = EmptySkills
       /\ ppc \in {"merge", "write", "writing", "done", "aborted"}
       /\ ppc = "aborted" => passed # None
       /\ new_skills # None => new_skills = old_skills
       /\ passed # None => passed = old_skills

\* C8 witness: the LLM call raised and the run wrote the baseline
C8_Witness ==
  /\ llm = "raise"
  /\ ppc = "done"
  /\ passed = old_skills
====
